---- MODULE Spec2Model ----
(***************************************************************************)
(* Model of the Cyberspace Raster batch converter (src/gui/rasterize.py    *)
(* and src/gui/raster_gui.py): Bayer matrix generation, threshold tiling,  *)
(* tonal shaping and palette quantization of one pixel, and the folder     *)
(* batch driver with its three callers (command line, GUI, direct call).   *)
(*                                                                         *)
(* Three specifications share the variables:                               *)
(*   SpecMatrix  bayer_matrix and the tiling step of rasterize             *)
(*   SpecPixel   rasterize, followed at one pixel of the image (every      *)
(*               numpy operation of rasterize is elementwise)              *)
(*   Spec        process_folder and its callers                            *)
(*                                                                         *)
(* Luminances and thresholds are exact fractions: a luminance is an        *)
(* integer over FixedOne, a threshold the fraction (2v+1)/(2*size^2). The  *)
(* float32 values of the program differ from them by rounding only.        *)
(***************************************************************************)
EXTENDS Integers, Sequences, FiniteSets, TLC

VARIABLES
    matrix_size,   \* rasterize/bayer_matrix argument
    h, w,          \* image height and width (img.size)
    M,             \* outcome of bayer_matrix(matrix_size)
    tiled,         \* outcome of the tiling step (lines 81-86)
    mpc,           \* position in SpecMatrix
    gray,          \* 8-bit luminance of the followed pixel
    prow, pcol,    \* its 0-based row and column
    px,            \* what rasterize computed and wrote at that pixel
    entry,         \* which entry point started the run
    palette_arg,   \* palette argument given by the caller, NoArg when omitted
    palette_name,  \* palette name in effect
    folder,        \* directory entries of the input folder
    pending,       \* sorted entries the loop of process_folder has not visited
    outputs,       \* output file name -> input entry whose image it holds
    processed,     \* entries handed to rasterize, in order
    pc,            \* position of the batch run
    pixel_work,    \* rasterize opened and shaped an image
    error          \* how the run ended when it failed

vars == <<matrix_size, h, w, M, tiled, mpc, gray, prow, pcol, px, entry,
          palette_arg, palette_name, folder, pending, outputs, processed,
          pc, pixel_work, error>>

matrixVars == <<matrix_size, h, w, M, tiled, mpc>>
pixelVars == <<gray, prow, pcol, px>>
batchVars == <<entry, palette_arg, folder, pending, outputs, processed,
               pc, pixel_work, error>>

Min(a, b) == IF a < b THEN a ELSE b
Max(a, b) == IF a < b THEN b ELSE a

(***************************************************************************)
(* Bounds of the model.                                                    *)
(***************************************************************************)
MaxSize == 8          \* largest matrix_size tried
MaxNeg == 2           \* matrix_size is tried down to -MaxNeg
MaxDim == 5           \* largest image height and width tried
RecursionLimit == 8   \* stands for the interpreter's recursion limit
MaxEntries == 3       \* most directory entries in the input folder

MatrixSizes == (0 - MaxNeg)..MaxSize
Dims == 1..MaxDim

(***************************************************************************)
(* bayer_matrix                                                            *)
(***************************************************************************)
\* 4 * m2 + k on every cell
Affine(m2, k) == [i \in 1..Len(m2) |-> [j \in 1..Len(m2[i]) |-> 4 * m2[i][j] + k]]

\* np.concatenate((a, b), axis=1)
ConcatAxis1(a, b) == [i \in 1..Len(a) |-> a[i] \o b[i]]

\* np.concatenate((a, b), axis=0)
ConcatAxis0(a, b) == a \o b

RecursionError == [err |-> "RecursionError", m |-> <<>>]

\* a variant with the bottom-right quadrant offset 2 instead of 1
BadQuadrants(m2) ==
    ConcatAxis0(ConcatAxis1(Affine(m2, 0), Affine(m2, 2)),
                ConcatAxis1(Affine(m2, 3), Affine(m2, 2)))

Quadrants(m2) ==
    ConcatAxis0(ConcatAxis1(Affine(m2, 0), Affine(m2, 2)),
                ConcatAxis1(Affine(m2, 3), Affine(m2, 1)))

\* bayer_matrix(n) entered at call depth `depth`; the recursion on n // 2
\* has no guard but n == 1, so it ends only by reaching 1 or by exhausting
\* the interpreter's stack.
RECURSIVE bayer_rec(_, _)
bayer_rec(n, depth) ==
    IF depth > RecursionLimit THEN RecursionError
    ELSE IF n = 1 THEN [err |-> "none", m |-> <<<<0>>>>]
    ELSE LET r == bayer_rec(n \div 2, depth + 1)
         IN  IF r.err # "none" THEN r
             ELSE [err |-> "none", m |-> Quadrants(r.m)]

bayer_matrix(n) == bayer_rec(n, 1)

(***************************************************************************)
(* Normalization and tiling (rasterize, lines 81-86)                       *)
(***************************************************************************)
\* a threshold (v + 0.5) / (matrix_size * matrix_size) kept as the exact
\* fraction (2v + 1) / (2 * matrix_size^2)
Thr(v, size) == [num |-> 2 * v + 1, den |-> 2 * size * size]

\* a variant that forgets the + 0.5
BadNormalize(m, size) ==
    [i \in 1..Len(m) |-> [j \in 1..Len(m[i]) |->
        [num |-> 2 * m[i][j], den |-> 2 * size * size]]]

\* M = (M + 0.5) / (matrix_size * matrix_size)
Normalize(m, size) ==
    [i \in 1..Len(m) |-> [j \in 1..Len(m[i]) |-> Thr(m[i][j], size)]]

RECURSIVE RepeatSeq(_, _)
RepeatSeq(s, k) == IF k <= 0 THEN <<>> ELSE s \o RepeatSeq(s, k - 1)

\* np.tile(m, (ry, rx))
Tile(m, ry, rx) == RepeatSeq([i \in 1..Len(m) |-> RepeatSeq(m[i], rx)], ry)

\* a[:hh, :ww]
Crop(a, hh, ww) ==
    [i \in 1..Min(hh, Len(a)) |-> SubSeq(a[i], 1, Min(ww, Len(a[i])))]

Rows(a) == Len(a)
Cols(a) == IF Len(a) = 0 THEN 0 ELSE Len(a[1])

\* the tiled, cropped threshold array for an image of hh rows and ww columns
TiledThresholds(m, size, hh, ww) ==
    Crop(Tile(Normalize(m, size), hh \div size + 1, ww \div size + 1), hh, ww)

\* numpy broadcasting of an (hh, ww) array against array a
Broadcastable(a, hh, ww) ==
    /\ Rows(a) = hh \/ Rows(a) = 1 \/ hh = 1
    /\ Cols(a) = ww \/ Cols(a) = 1 \/ ww = 1

\* lines 80-86 of rasterize: the tiled array, or the error that ends the call
TilingFrom(r, size, hh, ww) ==
    IF r.err # "none" THEN [err |-> r.err, a |-> <<>>]
    ELSE LET a == TiledThresholds(r.m, size, hh, ww)
         IN  IF Broadcastable(a, hh, ww)
             THEN [err |-> "none", a |-> a]
             ELSE [err |-> "ValueError", a |-> a]

TilingOutcome(size, hh, ww) == TilingFrom(bayer_matrix(size), size, hh, ww)

(***************************************************************************)
(* PALETTES (rasterize.py, lines 27-41). Keys are case-sensitive.          *)
(***************************************************************************)
PaletteKeys == {"VT320", "matrix", "paper", "amber", "c64", "green_phosphor", "dmg"}

PALETTES ==
    [k \in PaletteKeys |->
        CASE k = "VT320"          -> << <<23, 8, 0>>, <<255, 154, 16>> >>
          [] k = "matrix"         -> << <<0, 0, 0>>, <<140, 255, 140>> >>
          [] k = "paper"          -> << <<255, 244, 210>>, <<0, 0, 0>> >>
          [] k = "amber"          -> << <<0, 0, 0>>, <<255, 152, 56>> >>
          [] k = "c64"            -> << <<0, 0, 170>>, <<255, 255, 85>> >>
          [] k = "green_phosphor" -> << <<0, 0, 0>>, <<0, 255, 128>> >>
          [] k = "dmg"            -> << <<27, 42, 9>>, <<14, 69, 11>>,
                                        <<73, 107, 34>>, <<154, 158, 63>> >>]

\* palette_name: str = "vt320" (rasterize, process_folder, command line)
DefaultPalette == "vt320"
\* palette_var = tk.StringVar(value="VT320")
GuiDefaultPalette == "VT320"
\* the names the usage text of the command line advertises
UsagePalettes == {"vt320", "matrix", "paper"}
\* matrix_size: int = 8
DefaultMatrixSize == 8

(***************************************************************************)
(* Tonal shaping (rasterize, lines 61-76), in fixed point.                 *)
(* Luminance values are carried as integers over FixedOne.                 *)
(***************************************************************************)
FixedOne == 1000 * 1000

\* floor(FixedOne * (g / 255) ^ 1.1) for g = 0 .. 255: np.power(gray, gamma)
\* with gray = g / 255.0 and gamma = 1.1
GammaTable == <<
    0, 2253, 4829, 7544, 10353, 13233, 16172, 19160,
    22192, 25262, 28366, 31501, 34666, 37856, 41072, 44310,
    47570, 50851, 54150, 57469, 60804, 64157, 67525, 70909,
    74308, 77721, 81147, 84587, 88039, 91504, 94981, 98469,
    101969, 105480, 109001, 112533, 116074, 119626, 123187, 126758,
    130338, 133926, 137524, 141130, 144745, 148367, 151998, 155637,
    159283, 162937, 166599, 170267, 173944, 177627, 181317, 185014,
    188717, 192427, 196144, 199867, 203597, 207333, 211074, 214822,
    218576, 222336, 226101, 229873, 233649, 237432, 241220, 245013,
    248812, 252616, 256425, 260239, 264058, 267883, 271712, 275546,
    279386, 283230, 287078, 290932, 294790, 298652, 302520, 306391,
    310267, 314148, 318033, 321922, 325816, 329713, 333615, 337521,
    341431, 345346, 349264, 353186, 357113, 361043, 364977, 368915,
    372857, 376802, 380752, 384705, 388661, 392622, 396586, 400554,
    404525, 408500, 412478, 416460, 420445, 424434, 428426, 432421,
    436420, 440422, 444428, 448436, 452449, 456464, 460482, 464504,
    468529, 472557, 476588, 480622, 484659, 488700, 492743, 496790,
    500839, 504891, 508947, 513005, 517066, 521130, 525197, 529267,
    533340, 537416, 541494, 545575, 549659, 553746, 557835, 561927,
    566022, 570120, 574220, 578323, 582428, 586537, 590647, 594761,
    598877, 602995, 607116, 611240, 615366, 619495, 623626, 627760,
    631896, 636035, 640176, 644319, 648465, 652614, 656764, 660918,
    665073, 669231, 673391, 677554, 681719, 685886, 690056, 694227,
    698401, 702578, 706756, 710937, 715120, 719306, 723493, 727683,
    731875, 736069, 740265, 744464, 748664, 752867, 757072, 761279,
    765488, 769699, 773913, 778128, 782346, 786565, 790787, 795011,
    799236, 803464, 807694, 811926, 816159, 820395, 824633, 828873,
    833114, 837358, 841604, 845851, 850101, 854352, 858606, 862861,
    867118, 871377, 875638, 879901, 884166, 888433, 892701, 896972,
    901244, 905518, 909794, 914072, 918351, 922632, 926916, 931201,
    935487, 939776, 944066, 948358, 952652, 956948, 961245, 965544,
    969845, 974148, 978452, 982758, 987066, 991375, 995687, 1000000
>>

GrayLin(g) == GammaTable[g + 1]

\* shadow_cutoff = 0.28
ShadowCutoff == 280000

\* shadows = gray_lin < shadow_cutoff
Shadows(g) == GrayLin(g) < ShadowCutoff

\* denominator of gray_scaled: 1.0 - shadow_cutoff
ScaledDen == FixedOne - ShadowCutoff

\* np.clip(x, lo, hi)
Clip(x, lo, hi) == Max(lo, Min(x, hi))

\* numerator of gray_scaled = clip((gray_lin - shadow_cutoff) / (1 - shadow_cutoff), 0, 1)
GrayScaled(g) == Clip(GrayLin(g) - ShadowCutoff, 0, ScaledDen)

(***************************************************************************)
(* Quantization of one pixel (rasterize, lines 95-125)                     *)
(***************************************************************************)
\* gray_scaled >= tiled, both exact fractions
DitherMask(gs, t) == gs * t.den >= t.num * ScaledDen

\* numerator of vals = np.clip(gray_scaled, 0.0, 0.9999)
Vals(gs) == Clip(gs, 0, 9999 * (ScaledDen \div 10000))

\* np.floor(vals * L + tiled)
RawLevel(gs, t, L) == (Vals(gs) * L * t.den + t.num * ScaledDen) \div (ScaledDen * t.den)

\* a variant without the clip to 0 .. L-1
BadClipLevel(lv, L) == lv

\* levels = np.clip(levels, 0, L - 1)
ClipLevel(lv, L) == Clip(lv, 0, L - 1)

ZeroPixel == <<0, 0, 0>>

\* a variant with background and foreground exchanged
BadSelect2(colors, mask) == IF mask THEN colors[1] ELSE colors[2]

\* bg, fg = colors; rgb[mask] = fg; rgb[~mask] = bg
Select2(colors, mask) == IF mask THEN colors[2] ELSE colors[1]

\* for idx, color in enumerate(colors): rgb[levels == idx] = color
WriteLevels(colors, lv) ==
    IF \E idx \in 0..(Len(colors) - 1) : lv = idx
    THEN [written |-> TRUE, rgb |-> colors[lv + 1]]
    ELSE [written |-> FALSE, rgb |-> ZeroPixel]

NoPixel ==
    [err |-> "pending", branch |-> 0, shadow |-> FALSE, gs |-> 0,
     thr |-> [num |-> 0, den |-> 1], mask0 |-> FALSE, mask |-> FALSE,
     level0 |-> 0, level |-> 0, written |-> FALSE, rgb |-> ZeroPixel]

\* rasterize, followed at the pixel of luminance g in row r, column c
\* (0-based) of an image of hh rows and ww columns
RasterizePixel(g, size, hh, ww, r, c, pname) ==
    LET t == TilingOutcome(size, hh, ww)
    IN  IF t.err # "none" THEN [NoPixel EXCEPT !.err = t.err]
        ELSE IF pname \notin DOMAIN PALETTES
             THEN [NoPixel EXCEPT !.err = "KeyError"]
        ELSE
        LET colors == PALETTES[pname]
            thr == t.a[IF Rows(t.a) = 1 THEN 1 ELSE r + 1]
                      [IF Cols(t.a) = 1 THEN 1 ELSE c + 1]
            gs == GrayScaled(g)
            sh == Shadows(g)
            mask0 == DitherMask(gs, thr)
            mask == IF sh THEN FALSE ELSE mask0
            L == Len(colors)
            level0 == ClipLevel(RawLevel(gs, thr, L), L)
            level == IF sh THEN 0 ELSE level0
            base == [NoPixel EXCEPT !.err = "none", !.shadow = sh, !.gs = gs,
                                    !.thr = thr]
        IN  IF L = 2
            THEN [base EXCEPT !.branch = 2, !.mask0 = mask0, !.mask = mask,
                              !.written = TRUE, !.rgb = Select2(colors, mask)]
            ELSE LET wr == WriteLevels(colors, level)
                 IN  [base EXCEPT !.branch = L, !.level0 = level0,
                                  !.level = level, !.written = wr.written,
                                  !.rgb = wr.rgb]

(***************************************************************************)
(* Values of the variables a specification does not use                    *)
(***************************************************************************)
NoArg == "<omitted>"
NoMatrix == [err |-> "pending", m |-> <<>>]
NoTiling == [err |-> "pending", a |-> <<>>]

IdleMatrix ==
    /\ matrix_size = DefaultMatrixSize /\ h = 1 /\ w = 1
    /\ M = NoMatrix /\ tiled = NoTiling /\ mpc = "idle"

IdlePixel == gray = 0 /\ prow = 0 /\ pcol = 0 /\ px = NoPixel

IdleBatch ==
    /\ entry = "none" /\ palette_arg = NoArg
    /\ folder = {} /\ pending = <<>> /\ outputs = {} /\ processed = <<>>
    /\ pc = "idle" /\ pixel_work = FALSE /\ error = "none"

(***************************************************************************)
(* SpecMatrix: bayer_matrix(matrix_size), then the tiling of rasterize     *)
(* for an image of h rows and w columns                                    *)
(***************************************************************************)
InitMatrix ==
    /\ matrix_size \in MatrixSizes
    /\ h \in Dims /\ w \in Dims
    /\ M = NoMatrix /\ tiled = NoTiling /\ mpc = "start"
    /\ palette_name = DefaultPalette
    /\ IdlePixel /\ IdleBatch

\* M = bayer_matrix(matrix_size)
CallBayer ==
    /\ mpc = "start"
    /\ M' = bayer_matrix(matrix_size)
    /\ mpc' = "generated"
    /\ UNCHANGED <<matrix_size, h, w, tiled, pixelVars, batchVars, palette_name>>

\* lines 81-86: normalize, tile, crop, compare against the image
TileStep ==
    /\ mpc = "generated"
    /\ tiled' = TilingFrom(M, matrix_size, h, w)
    /\ mpc' = "tiled"
    /\ UNCHANGED <<matrix_size, h, w, M, pixelVars, batchVars, palette_name>>

NextMatrix == CallBayer \/ TileStep

SpecMatrix == InitMatrix /\ [][NextMatrix]_vars

(***************************************************************************)
(* SpecPixel: rasterize on an image of PxDim x PxDim pixels, followed at   *)
(* the pixel (prow, pcol) whose luminance is gray                          *)
(***************************************************************************)
PxDim == 5
PxMaxSize == 4

PixelSizes == 1..PxMaxSize \cup {DefaultMatrixSize}
PixelPalettes == PaletteKeys \cup {DefaultPalette}

InitPixel ==
    /\ gray \in 0..255
    /\ matrix_size \in PixelSizes
    /\ h = PxDim /\ w = PxDim
    /\ prow \in 0..(PxDim - 1) /\ pcol \in 0..(PxDim - 1)
    /\ palette_name \in PixelPalettes
    /\ px = NoPixel
    /\ M = NoMatrix /\ tiled = NoTiling /\ mpc = "idle"
    /\ IdleBatch

Rasterize ==
    /\ px.err = "pending"
    /\ px' = RasterizePixel(gray, matrix_size, h, w, prow, pcol, palette_name)
    /\ UNCHANGED <<matrixVars, gray, prow, pcol, batchVars, palette_name>>

NextPixel == Rasterize

SpecPixel == InitPixel /\ [][NextPixel]_vars

(***************************************************************************)
(* Spec: process_folder and its callers                                    *)
(***************************************************************************)
\* Directory entries the input folder may hold. c.png is a directory.
Entry(stem, ext, isfile) == [stem |-> stem, ext |-> ext, is_file |-> isfile]

EntryUniverse ==
    { Entry("a", ".PNG", TRUE), Entry("a", ".jpg", TRUE), Entry("a", ".png", TRUE),
      Entry("b", ".png", TRUE), Entry("b", ".txt", TRUE), Entry("c", ".png", FALSE) }

Folders == { S \in SUBSET EntryUniverse : Cardinality(S) <= MaxEntries }

\* character order of the stems and suffixes in use ('P' < 'j' < 'p' < 't')
StemOrder == <<"a", "b", "c">>
ExtOrder == <<".PNG", ".jpg", ".png", ".txt">>
IndexOf(s, x) == CHOOSE i \in 1..Len(s) : s[i] = x

\* x sorts before y: comparison of the names stem + ext
Before(x, y) ==
    \/ IndexOf(StemOrder, x.stem) < IndexOf(StemOrder, y.stem)
    \/ /\ x.stem = y.stem
       /\ IndexOf(ExtOrder, x.ext) < IndexOf(ExtOrder, y.ext)

\* sorted(in_path.iterdir())
RECURSIVE Sorted(_)
Sorted(S) ==
    IF S = {} THEN <<>>
    ELSE LET m == CHOOSE x \in S : \A y \in S : x = y \/ Before(x, y)
         IN  <<m>> \o Sorted(S \ {m})

\* file.suffix.lower()
Lower(ext) == IF ext = ".PNG" THEN ".png" ELSE ext

\* exts = {".png", ".jpg", ".jpeg", ".webp", ".bmp", ".gif"}
exts == {".png", ".jpg", ".jpeg", ".webp", ".bmp", ".gif"}

\* the loop visits f: it is a file and its lowered suffix is an image suffix
Recognized(f) == f.is_file /\ Lower(f.ext) \in exts

\* output_name = f"{file.stem}_{palette_name}.png"
OutputName(f, pname) == <<f.stem, "_", pname, ".png">>

\* output path of a direct call of rasterize
DirectOutput == <<"out", ".png">>

\* rasterize on one file: Image.open and the shaping and tiling come before
\* the palette lookup, the save comes last
RasterizeFile(readable, pname) ==
    IF ~readable
    THEN [err |-> "IOFailure", pixel_work |-> FALSE, saved |-> FALSE]
    ELSE IF pname \notin DOMAIN PALETTES
    THEN [err |-> "KeyError", pixel_work |-> TRUE, saved |-> FALSE]
    ELSE [err |-> "none", pixel_work |-> TRUE, saved |-> TRUE]

\* Image.save(output_path): the file of that name now holds f's image
Save(outs, name, f) ==
    { o \in outs : o.name # name } \cup { [name |-> name, src |-> f] }

\* a variant of the loop that goes on to the next file after a failure
BadOnRasterizeError == "loop"

\* an exception of rasterize leaves the loop of process_folder: no handler
OnRasterizeError == "failed"

PaletteArgs == {NoArg, "VT320", "vt320", "matrix", "paper", "dmg", "nope"}
EntryPoints == {"cli", "gui", "process_folder", "rasterize"}

Init ==
    /\ entry \in EntryPoints
    /\ palette_arg \in PaletteArgs
    /\ palette_name = NoArg
    /\ folder \in Folders
    /\ pending = <<>> /\ outputs = {} /\ processed = <<>>
    /\ pc = "start" /\ pixel_work = FALSE /\ error = "none"
    /\ IdleMatrix /\ IdlePixel

Stop(kind, why) ==
    /\ pc' = kind /\ error' = why
    /\ UNCHANGED <<pending, outputs, processed, pixel_work>>

\* process_folder up to its loop (lines 139-151)
EnterProcessFolder(isdir) ==
    IF ~isdir
    THEN Stop("exit", "NoInputFolder")
    ELSE /\ pending' = Sorted(folder)
         /\ pc' = "loop"
         /\ UNCHANGED <<outputs, processed, pixel_work, error>>

\* the command line (lines 172-186)
Main ==
    /\ pc = "start" /\ entry = "cli"
    /\ \E argc_ok \in BOOLEAN, width \in {"absent", "int", "text"}, isdir \in BOOLEAN :
        IF ~argc_ok
        THEN /\ palette_name' = palette_name
             /\ Stop("exit", "Usage")
        ELSE /\ palette_name' = (IF palette_arg # NoArg THEN palette_arg ELSE DefaultPalette)
             /\ IF width = "text"
                THEN Stop("failed", "ValueError")
                ELSE IF palette_name' \notin DOMAIN PALETTES
                THEN Stop("exit", "UnknownPalette")
                ELSE EnterProcessFolder(isdir)
    /\ UNCHANGED <<matrixVars, pixelVars, entry, palette_arg, folder>>

\* the GUI's run_rasterizer (raster_gui.py, lines 53-97)
RunRasterizer ==
    /\ pc = "start" /\ entry = "gui"
    /\ \E dirs_given \in BOOLEAN, width \in {"blank", "positive", "invalid"},
          isdir \in BOOLEAN :
        /\ palette_name' = (IF palette_arg # NoArg THEN palette_arg ELSE GuiDefaultPalette)
        /\ IF ~dirs_given
           THEN Stop("exit", "NoFolderChosen")
           ELSE IF palette_name' \notin DOMAIN PALETTES
           THEN Stop("exit", "UnknownPalette")
           ELSE IF width = "invalid"
           THEN Stop("exit", "BadWidth")
           ELSE EnterProcessFolder(isdir)
    /\ UNCHANGED <<matrixVars, pixelVars, entry, palette_arg, folder>>

\* a direct call of process_folder (lines 134-151)
ProcessFolderCall ==
    /\ pc = "start" /\ entry = "process_folder"
    /\ palette_name' = (IF palette_arg # NoArg THEN palette_arg ELSE DefaultPalette)
    /\ \E isdir \in BOOLEAN : EnterProcessFolder(isdir)
    /\ UNCHANGED <<matrixVars, pixelVars, entry, palette_arg, folder>>

\* a direct call of rasterize on one file of the folder (lines 46-129)
RasterizeCall ==
    /\ pc = "start" /\ entry = "rasterize"
    /\ palette_name' = (IF palette_arg # NoArg THEN palette_arg ELSE DefaultPalette)
    /\ \E f \in folder, readable \in BOOLEAN :
        LET r == RasterizeFile(readable, palette_name')
        IN  /\ processed' = <<f>>
            /\ pixel_work' = r.pixel_work
            /\ error' = r.err
            /\ outputs' = IF r.saved THEN Save(outputs, DirectOutput, f) ELSE outputs
            /\ pc' = IF r.err = "none" THEN "done" ELSE "failed"
    /\ UNCHANGED <<matrixVars, pixelVars, entry, palette_arg, folder, pending>>

\* one iteration of the loop of process_folder (lines 151-168)
ProcessFile ==
    /\ pc = "loop" /\ pending # <<>>
    /\ LET f == Head(pending)
       IN  /\ pending' = Tail(pending)
           /\ IF ~Recognized(f)
              THEN UNCHANGED <<outputs, processed, pc, pixel_work, error>>
              ELSE \E readable \in BOOLEAN :
                    LET r == RasterizeFile(readable, palette_name)
                    IN  /\ processed' = Append(processed, f)
                        /\ pixel_work' = (pixel_work \/ r.pixel_work)
                        /\ outputs' = IF r.saved
                                      THEN Save(outputs, OutputName(f, palette_name), f)
                                      ELSE outputs
                        /\ error' = IF r.err = "none" THEN error ELSE r.err
                        /\ pc' = IF r.err = "none" THEN pc ELSE OnRasterizeError
    /\ UNCHANGED <<matrixVars, pixelVars, entry, palette_arg, palette_name, folder>>

\* the loop of process_folder ends and the call returns
Finish ==
    /\ pc = "loop" /\ pending = <<>>
    /\ pc' = "done"
    /\ UNCHANGED <<matrixVars, pixelVars, entry, palette_arg, palette_name, folder,
                   pending, outputs, processed, pixel_work, error>>

Next ==
    \/ Main
    \/ RunRasterizer
    \/ ProcessFolderCall
    \/ RasterizeCall
    \/ ProcessFile
    \/ Finish

Spec == Init /\ [][Next]_vars

(***************************************************************************)
(* Properties                                                              *)
(***************************************************************************)
IsPowerOfTwo(n) == n >= 1 /\ \E k \in 0..n : 2 ^ k = n

CeilDiv(a, b) == (a + b - 1) \div b

BayerReturned == mpc \in {"generated", "tiled"}

\* C1: for n a power of two, bayer_matrix(n) returns an n x n matrix in which
\* each integer of 0 .. n*n-1 appears exactly once; bayer_matrix(1) is the
\* single cell 0.
C1_BayerIsPermutation ==
    (BayerReturned /\ IsPowerOfTwo(matrix_size)) =>
        LET n == matrix_size
        IN  /\ M.err = "none"
            /\ Len(M.m) = n
            /\ \A i \in 1..n : Len(M.m[i]) = n
            /\ \A v \in 0..(n * n - 1) :
                 Cardinality({ ij \in (1..n) \X (1..n) : M.m[ij[1]][ij[2]] = v }) = 1
            /\ (n = 1 => M.m = << <<0>> >>)

C1_Witness ==
    /\ mpc = "generated" /\ matrix_size = 4
    /\ M.err = "none" /\ M.m[1] = <<0, 8, 2, 10>> /\ M.m[4][1] = 15

\* C5: bayer_matrix(n) with n not a power of two (n <= 0 included) ends in an
\* InvalidArgument error: it returns no matrix and does not recurse without end.
C5_NonPowerOfTwoRejected ==
    (BayerReturned /\ ~IsPowerOfTwo(matrix_size)) => M.err = "InvalidArgument"

\* C6: for every matrix_size >= 1, with n the side of the matrix generated for
\* it, and every image of h rows and w columns, the tiled threshold array has
\* exactly h rows and w columns, its cell (r, c) is M[r mod n][c mod n], and it
\* equals the array got by replicating ceil(h/n)+1 by ceil(w/n)+1 times and
\* cropping.
C6_TiledCoversImage ==
    (mpc = "tiled" /\ matrix_size >= 1) =>
        LET n == Len(M.m)
            a == tiled.a
            Mn == Normalize(M.m, matrix_size)
        IN  /\ M.err = "none"
            /\ Len(a) = h
            /\ \A r \in 1..h : Len(a[r]) = w
            /\ \A r \in 0..(h - 1), c \in 0..(w - 1) :
                 a[r + 1][c + 1] = Mn[(r % n) + 1][(c % n) + 1]
            /\ a = Crop(Tile(Mn, CeilDiv(h, n) + 1, CeilDiv(w, n) + 1), h, w)

\* The statement of C6 for the sizes bayer_matrix is documented for:
\* matrix_size a power of two, where the side of the matrix is matrix_size.
TiledCoversImageForPowersOfTwo ==
    (mpc = "tiled" /\ IsPowerOfTwo(matrix_size)) => C6_TiledCoversImage

\* C2: every pixel rasterize writes is palette[k] for some k in 0 .. N-1: in
\* N-colour mode the level is within 0 .. N-1, in 2-colour mode the pixel is
\* background or foreground, and no pixel keeps the zero initial value of the
\* buffer.
C2_PixelIsPaletteColour ==
    (px.err = "none") =>
        LET colors == PALETTES[palette_name]
            N == Len(colors)
        IN  /\ px.written
            /\ \E k \in 0..(N - 1) : px.rgb = colors[k + 1]
            /\ (N = 2 => px.branch = 2 /\ px.rgb \in {colors[1], colors[2]})
            /\ (N # 2 => /\ px.branch = N
                         /\ px.level0 \in 0..(N - 1)
                         /\ px.level \in 0..(N - 1)
                         /\ px.rgb = colors[px.level + 1])

C2_Witness ==
    /\ px.err = "none" /\ palette_name = "dmg" /\ gray = 255
    /\ px.level = 3 /\ px.rgb = <<154, 158, 63>>

\* C3: in both quantizer modes a pixel whose gamma-shaped luminance is below
\* shadow_cutoff is output as palette entry 0, whatever its threshold.
C3_ShadowIsEntryZero ==
    (px.err = "none" /\ GrayLin(gray) < ShadowCutoff) =>
        /\ px.written
        /\ px.rgb = PALETTES[palette_name][1]

C3_Witness ==
    /\ px.err = "none" /\ GrayLin(gray) < ShadowCutoff /\ gray = 80
    /\ palette_name = "paper" /\ px.rgb = <<255, 244, 210>>

\* C10: every normalized threshold lies strictly between 0 and 1, and the
\* shadow override never changes a pixel: a shadow pixel has shaped luminance 0
\* after the clip, the 2-colour comparison already gives off and the N-colour
\* formula already gives level 0 before the override.
C10_ShadowOverrideIsNoOp ==
    (px.err = "none") =>
        /\ 0 < px.thr.num /\ px.thr.num < px.thr.den
        /\ px.mask = px.mask0
        /\ px.level = px.level0
        /\ (GrayLin(gray) < ShadowCutoff =>
              /\ px.gs = 0
              /\ (px.branch = 2 => px.mask0 = FALSE)
              /\ (px.branch # 2 => px.level0 = 0))

C10_Witness ==
    /\ px.err = "none" /\ GrayLin(gray) < ShadowCutoff /\ gray > 0
    /\ px.branch = 4 /\ px.thr.num = px.thr.den - 1 /\ px.level0 = 0

BatchStarted == pc \notin {"idle", "start"}

\* C4: on every entry point a palette name that is not a key of PALETTES fails
\* before any pixel computation starts and with no output file written.
C4_UnknownPaletteFailsFast ==
    (BatchStarted /\ palette_name # NoArg /\ palette_name \notin PaletteKeys) =>
        /\ ~pixel_work
        /\ outputs = {}
        /\ pc # "done"

\* C7: the default palette name and every name the usage text advertises is a
\* key of PALETTES, so a run that omits the palette argument, or passes an
\* advertised name on the command line, does not end in an unknown-palette
\* error.
C7_DefaultPaletteAccepted ==
    (/\ BatchStarted
     /\ \/ palette_arg = NoArg /\ entry \in {"cli", "process_folder", "rasterize"}
        \/ palette_arg \in UsagePalettes /\ entry = "cli") =>
        error \notin {"UnknownPalette", "KeyError"}

Range(s) == { s[i] : i \in 1..Len(s) }

\* C8: process_folder hands the recognized files to rasterize one at a time in
\* ascending name order, skipping none; a failing rasterize writes nothing, and
\* after a failure no further file is processed and no output changes.
C8_SequentialAbort ==
    [][ /\ Len(processed') <= Len(processed) + 1
        /\ (entry # "rasterize" /\ processed' # processed) =>
              /\ SubSeq(processed', 1, Len(processed)) = processed
              /\ LET f == processed'[Len(processed')]
                 IN  /\ Recognized(f) /\ f \in folder /\ f \notin Range(processed)
                     /\ \A g \in folder :
                          (Recognized(g) /\ Before(g, f)) => g \in Range(processed)
        /\ (error = "none" /\ error' # "none") => outputs' = outputs
        /\ (error # "none") => UNCHANGED <<outputs, processed, pending, pc>>
      ]_vars

C8_Witness ==
    /\ entry = "process_folder" /\ pc = "failed" /\ error = "IOFailure"
    /\ Len(processed) = 2 /\ Cardinality(outputs) = 1
    /\ \E i \in 1..Len(pending) : Recognized(pending[i])

\* C9: within one process_folder run two distinct recognized input files get
\* distinct output paths, so no output of the batch is overwritten by a later
\* file: every file processed so far still has its own output.
C9_OutputsNotOverwritten ==
    (pc \in {"loop", "done"} /\ entry # "rasterize" /\ error = "none") =>
        \A i \in 1..Len(processed) :
            [name |-> OutputName(processed[i], palette_name), src |-> processed[i]]
                \in outputs

====
